---- MODULE Spec2Model ----
(***************************************************************************)
(* A model of starfile's writer (src/src/starfile/writer.py): the          *)
(* StarWriter object, the filesystem it renames and writes, and the pure   *)
(* rendering functions (quote, simple_block, loop_block, the coercions).   *)
(*                                                                         *)
(* Text is modelled character by character: a Python str is a sequence of  *)
(* one-character strings, a line is a str, a file is the str of its text. *)
(* Python values are records tagged with their type in the field py.       *)
(***************************************************************************)
EXTENDS Integers, Sequences, FiniteSets, TLC

(* ------------------------------ bounds --------------------------------- *)
MaxStrLen == 1
MaxCols == 2
MaxRows == 2
MaxEntries == 2
MaxWriters == 1
MaxWrites == 2
MaxClock == 0

(* ------------------------- Python values -------------------------------- *)
PyStr(s) == [py |-> "str", v |-> s]
PyInt(n) == [py |-> "int", v |-> <<n>>]
PyNone == [py |-> "NoneType", v |-> <<>>]
PyTuple == [py |-> "tuple", v |-> <<>>]
DataFrame(cs, rs) == [py |-> "DataFrame", columns |-> cs, rows |-> rs]
PyDict(its) == [py |-> "dict", items |-> its]
PyList(es) == [py |-> "list", elems |-> es]
Item(k, val) == [k |-> k, v |-> val]

Chars == {"a", " "}
KeyChars == {"a", "b", "c"}
QuoteCharacters == {<<"\"">>, <<"'">>}
Separators == {<<"\t">>, <<",">>}
NaReps == {<<"<", "N", "A", ">">>}

StrsUpTo(n, alphabet) == UNION {[1..k -> alphabet] : k \in 0..n}
Strings == StrsUpTo(MaxStrLen, Chars)
Scalars == {PyStr(s) : s \in Strings} \cup {PyInt(7), PyNone}
(* the cells of a table: strings and the missing value *)
Cells == {PyStr(<<>>), PyStr(<<"a", " ">>), PyNone}
Injective(f) == \A i, j \in DOMAIN f : f[i] = f[j] => i = j
(* a table of c columns has the first c of these names *)
ColumnNames == << <<"x">>, <<"y">>, <<"z">>, <<"w">> >>
ColumnLists(c) == {SubSeq(ColumnNames, 1, c)}
(* the tables of at most maxc columns and maxr rows *)
DataFrames(maxc, maxr) ==
    UNION {UNION {{DataFrame(cs, rs) :
                      cs \in ColumnLists(c),
                      rs \in [1..r -> [1..c -> Cells]]} :
                  r \in 0..maxr} :
           c \in 1..maxc}
(* the blocks and other values met as dict values and list elements *)
Elems ==
    { DataFrame(<< <<"x">> >>, <<>>),
      DataFrame(<< <<"y">>, <<"x">> >>, << <<PyStr(<<"a">>), PyNone>> >>),
      PyDict(<<>>),
      PyDict(<<Item(<<"b">>, PyStr(<<" ">>))>>),
      PyInt(7),
      PyStr(<<"a">>) }
KeyLists(n) == {ks \in [1..n -> {<<ch>> : ch \in KeyChars}] : Injective(ks)}
DictsOver(values, maxn) ==
    UNION {{PyDict([i \in 1..n |-> Item(ks[i], vs[i])]) :
               ks \in KeyLists(n), vs \in [1..n -> values]} :
           n \in 0..maxn}
FlatDicts(maxn) == DictsOver(Scalars, maxn)
Dicts(maxn) == DictsOver(Elems, maxn) \cup FlatDicts(maxn)
Lists(maxn) == UNION {{PyList(es) : es \in [1..n -> Elems]} : n \in 0..maxn}
Invalid == {PyTuple, PyNone, PyStr(<<"a">>), PyInt(7)}
(* what the coercion is given; it does not look into a table, so those of  *)
(* one row at most are enough                                              *)
Inputs(maxc, maxn) ==
    DataFrames(maxc, 1) \cup Dicts(maxn) \cup Lists(maxn) \cup Invalid
BlockNames == {<<>>, <<"a">>}

(* ------------------------- text helpers --------------------------------- *)
S_data == <<"d", "a", "t", "a", "_">>
S_loop == <<"l", "o", "o", "p", "_">>
S_None == <<"N", "o", "n", "e">>
Digit(d) == <<"0", "1", "2", "3", "4", "5", "6", "7", "8", "9">>[d + 1]

RECURSIVE IntStr(_)
(* str(n) / f'{n}' for a non-negative int *)
IntStr(n) == IF n < 10 THEN <<Digit(n)>>
             ELSE IntStr(n \div 10) \o <<Digit(n % 10)>>

(* f'{x}' : the text an f-string gives a value *)
Format(x) == CASE x.py = "str" -> x.v
               [] x.py = "int" -> IntStr(x.v[1])
               [] OTHER -> S_None

Contains(s, ch) == \E i \in 1..Len(s) : s[i] = ch

RECURSIVE Concat(_)
(* ''.join(parts) *)
Concat(parts) == IF parts = <<>> THEN <<>>
                 ELSE Head(parts) \o Concat(Tail(parts))

RECURSIVE Join(_, _)
(* sep.join(parts) *)
Join(parts, sep) ==
    IF parts = <<>> THEN <<>>
    ELSE IF Len(parts) = 1 THEN parts[1]
    ELSE parts[1] \o sep \o Join(Tail(parts), sep)

RECURSIVE Split(_, _)
(* s.split(ch): one more piece than there are occurrences of ch *)
Split(s, ch) ==
    IF ~Contains(s, ch) THEN <<s>>
    ELSE LET i == CHOOSE j \in 1..Len(s) :
                      s[j] = ch /\ \A k \in 1..(j - 1) : s[k] # ch
         IN <<SubSeq(s, 1, i - 1)>> \o Split(SubSeq(s, i + 1, Len(s)), ch)

(* ------------------------------ quote ----------------------------------- *)
(* quote without the test for the empty string *)
quote_nonempty_only(x, quote_character, quote_all_strings) ==
    IF x.py = "str" /\ (quote_all_strings \/ Contains(x.v, " "))
    THEN PyStr(quote_character \o x.v \o quote_character)
    ELSE x

quote(x, quote_character, quote_all_strings) ==
    IF x.py = "str" /\ (quote_all_strings \/ Contains(x.v, " ") \/ x.v = <<>>)
    THEN PyStr(quote_character \o x.v \o quote_character)
    ELSE x

(* --------------------------- simple_block ------------------------------- *)
simple_block(block_name, data, quote_character, quote_all_strings) ==
    << S_data \o block_name, <<>> >>
    \o [i \in 1..Len(data.items) |->
          <<"_">> \o data.items[i].k \o <<"\t", "\t", "\t">>
          \o Format(quote(data.items[i].v, quote_character, quote_all_strings))]
    \o << <<>>, <<>> >>

(* ---------------------------- loop_block -------------------------------- *)
(* df.map(lambda x: quote(x, ...)): quote applied to every cell *)
map_quote(df, quote_character, quote_all_strings) ==
    DataFrame(df.columns,
              [r \in 1..Len(df.rows) |->
                  [c \in 1..Len(df.rows[r]) |->
                      quote(df.rows[r][c], quote_character,
                            quote_all_strings)]])

(* DataFrame.to_csv(header=False, index=False, quoting=QUOTE_NONE): every  *)
(* row is its cells' text joined by sep and ended by a newline; a missing  *)
(* value is na_rep.                                                        *)
CellText(x, na_rep) == IF x.py = "NoneType" THEN na_rep ELSE Format(x)
to_csv(df, sep, na_rep) ==
    Concat([r \in 1..Len(df.rows) |->
               Join([c \in 1..Len(df.rows[r]) |-> CellText(df.rows[r][c], na_rep)],
                    sep)
               \o <<"\n">>])

ColumnLine(column_name, idx, include_line_num) ==
    IF include_line_num
    THEN <<"_">> \o column_name \o <<" ", "#">> \o IntStr(idx)
    ELSE <<"_">> \o column_name

loop_block(block_name, df, separator, na_rep, quote_character, quote_all_strings, include_line_num) ==
    << S_data \o block_name, <<>>, S_loop >>
    \o [i \in 1..Len(df.columns) |->
           ColumnLine(df.columns[i], i, include_line_num)]
    \o Split(to_csv(map_quote(df, quote_character, quote_all_strings),
                    separator, na_rep), "\n")
    \o << <<>>, <<>> >>

(* ----------------------------- coercion --------------------------------- *)
ValueError == [py |-> "ValueError", items |-> <<>>]
Raised(r) == r.py = "ValueError"

coerce_dataframe(df) == PyDict(<<Item(<<>>, df)>>)

coerce_dict(data_blocks) ==
    IF \E i \in 1..Len(data_blocks.items) :
          data_blocks.items[i].v.py \in {"dict", "DataFrame"}
    THEN data_blocks
    ELSE PyDict(<<Item(<<>>, data_blocks)>>)

(* coerce_list counting from one *)
coerce_list_from_one(data_blocks) ==
    PyDict([i \in 1..Len(data_blocks.elems) |->
               Item(IntStr(i), data_blocks.elems[i])])

coerce_list(data_blocks) ==
    PyDict([i \in 1..Len(data_blocks.elems) |->
               Item(IntStr(i - 1), data_blocks.elems[i])])

coerce_data_blocks(data_blocks) ==
    CASE data_blocks.py = "DataFrame" -> coerce_dataframe(data_blocks)
      [] data_blocks.py = "dict" -> coerce_dict(data_blocks)
      [] data_blocks.py = "list" -> coerce_list(data_blocks)
      [] OTHER -> ValueError

(* --------------------------- the document ------------------------------- *)
(* The provenance line; the clock reading stands for the time and date.    *)
package_info(now) == <<"#", " ">> \o IntStr(now)

(* One entry of self.data_blocks.items(): loop_block is called without     *)
(* include_line_num, so its default (True) applies.                        *)
BlockLines(self, entry) ==
    IF entry.v.py = "dict"
    THEN simple_block(entry.k, entry.v, self.quote_character,
                      self.quote_all_strings)
    ELSE IF entry.v.py = "DataFrame"
    THEN loop_block(entry.k, entry.v, self.sep, self.na_rep,
                    self.quote_character, self.quote_all_strings, TRUE)
    ELSE <<>>

data_block_generator(self) ==
    Concat([i \in 1..Len(self.data_blocks.items) |->
               BlockLines(self, self.data_blocks.items[i])])

lines(self, now) ==
    <<package_info(now), <<>>, <<>>>> \o data_block_generator(self)

(* --------------------------- StarWriter --------------------------------- *)
InitKeywords ==
    {"data_blocks", "filename", "float_format", "separator", "na_rep",
     "quote_character", "quote_all_strings"}
AcceptsKeywords(options) == DOMAIN options \subseteq InitKeywords
TypeError == [py |-> "TypeError", items |-> <<>>]

NoWriter ==
    [alive |-> FALSE, data_blocks |-> PyDict(<<>>), filename |-> "None",
     sep |-> <<>>, na_rep |-> <<>>, quote_character |-> <<>>,
     quote_all_strings |-> FALSE]

(* self after __init__'s assignments: the defaults but for the keywords given *)
NewWriter(doc, filename, options) ==
    [alive |-> TRUE, data_blocks |-> doc, filename |-> filename,
     sep |-> <<"\t">>, na_rep |-> <<"<", "N", "A", ">">>,
     quote_character |-> <<"\"">>,
     quote_all_strings |-> IF "quote_all_strings" \in DOMAIN options
                           THEN options.quote_all_strings ELSE FALSE]

(* --------------------------- the filesystem ----------------------------- *)
(* A file is its text; filenames are strings, "None" standing for Python's *)
(* None.  The paths are plain files of one directory (no symbolic links).  *)
NoFile == [exists |-> FALSE, text |-> <<>>]
FileOf(text) == [exists |-> TRUE, text |-> text]
Paths == {"f", "f~"}
Filenames == {"None", "f"}
OldTexts == {<<"o", "\n">>, <<"p", "\n">>}

(* the backup path without the marker *)
backup_path_unmarked(filename) == filename

backup_path(filename) == filename \o "~"

(* the destination deleted instead of renamed *)
backup_if_file_exists_unlinks(self, files) ==
    IF self.filename # "None" /\ files[self.filename].exists
    THEN [files EXCEPT ![self.filename] = NoFile]
    ELSE files

backup_if_file_exists(self, files) ==
    IF self.filename # "None" /\ files[self.filename].exists
    THEN LET bp == backup_path(self.filename)
             unlinked == IF files[bp].exists
                         THEN [files EXCEPT ![bp] = NoFile]
                         ELSE files
         IN [unlinked EXCEPT ![bp] = unlinked[self.filename],
                             ![self.filename] = NoFile]
    ELSE files

(* __init__ with the backup ahead of the coercion *)
StarWriter_init_backup_first(data_blocks, filename, options, files) ==
    IF ~AcceptsKeywords(options)
    THEN [err |-> "TypeError", self |-> NoWriter, files |-> files]
    ELSE LET moved == IF filename # "None" /\ files[filename].exists
                      THEN [files EXCEPT ![filename \o "~"] = files[filename],
                                         ![filename] = NoFile]
                      ELSE files
         IN IF Raised(coerce_data_blocks(data_blocks))
            THEN [err |-> "ValueError", self |-> NoWriter, files |-> moved]
            ELSE [err |-> "ok",
                  self |-> NewWriter(coerce_data_blocks(data_blocks),
                                     filename, options),
                  files |-> moved]

(* __init__: the refusal of an unknown keyword, the coercion (which may    *)
(* raise), the assignments, and last the backup.                           *)
StarWriter_init(data_blocks, filename, options, files) ==
    IF ~AcceptsKeywords(options)
    THEN [err |-> "TypeError", self |-> NoWriter, files |-> files]
    ELSE IF Raised(coerce_data_blocks(data_blocks))
    THEN [err |-> "ValueError", self |-> NoWriter, files |-> files]
    ELSE LET self == NewWriter(coerce_data_blocks(data_blocks), filename,
                               options)
         IN [err |-> "ok", self |-> self,
             files |-> backup_if_file_exists(self, files)]

(* f.writelines(line + '\n' for line in ...): the text of the lines *)
FileText(ls) == Concat([i \in 1..Len(ls) |-> ls[i] \o <<"\n">>])

(* write(): the outcome says how far it gets: -1 when open() fails, k in  *)
(* 0 .. n-1 when rendering or writing fails after k of the n lines, n when *)
(* every line is written.  open(mode='w+') creates or truncates the file.  *)
Outcomes(self, now) == -1..Len(lines(self, now))
(* write() without its own test of the filename: open(None) raises *)
write_unchecked(self, now, outcome, files) ==
    IF self.filename = "None" \/ outcome = -1
    THEN [err |-> "OSError", files |-> files]
    ELSE [err |-> IF outcome = Len(lines(self, now)) THEN "ok" ELSE "OSError",
          files |-> [files EXCEPT ![self.filename] =
                        FileOf(FileText(SubSeq(lines(self, now), 1, outcome)))]]

write(self, now, outcome, files) ==
    IF self.filename = "None"
    THEN [err |-> "ValueError", files |-> files]
    ELSE IF outcome = -1
    THEN [err |-> "OSError", files |-> files]
    ELSE [err |-> IF outcome = Len(lines(self, now)) THEN "ok" ELSE "OSError",
          files |-> [files EXCEPT ![self.filename] =
                        FileOf(FileText(SubSeq(lines(self, now), 1, outcome)))]]

(* ======================= direct calls of the functions ================== *)
(* One call per behaviour: the initial state holds the function called and *)
(* its arguments, the step of the call puts what it returns in result.     *)
VARIABLES fn, args, result, returned

callvars == <<fn, args, result, returned>>

(* The writers and the files.  files, writers and err are the program's    *)
(* state; the others record its history: nwrites[w] counts w's write()     *)
(* calls, orig[w] is the destination as w's constructor found it, alone[w] *)
(* says that no other writer has changed a file since, and last is the     *)
(* call of the last step and whether it changed a file.                    *)
VARIABLES files, writers, err, nwrites, orig, alone, last

wvars == <<files, writers, err, nwrites, orig, alone, last>>
vars == <<fn, args, result, returned,
          files, writers, err, nwrites, orig, alone, last>>

Writers == 1..MaxWriters
NoCall == [op |-> "none", w |-> 0, filename |-> "None", shape |-> "none",
           changed |-> FALSE]
Idle ==
    /\ writers = [w \in Writers |-> NoWriter]
    /\ err = "none"
    /\ nwrites = [w \in Writers |-> 0]
    /\ orig = [w \in Writers |-> NoFile]
    /\ alone = [w \in Writers |-> FALSE]
    /\ last = NoCall

QuoteArgs ==
    {[x |-> x, quote_character |-> q, quote_all_strings |-> qas] :
        x \in Scalars \cup {PyStr(<<"a", " ">>), PyInt(0)},
        q \in QuoteCharacters, qas \in BOOLEAN}

SimpleBlockArgs(maxn) ==
    {[block_name |-> name, data |-> data, quote_character |-> q,
      quote_all_strings |-> qas] :
        name \in BlockNames, data \in FlatDicts(maxn),
        q \in QuoteCharacters, qas \in BOOLEAN}

LoopBlockArgs(maxc, maxr) ==
    {[block_name |-> name, df |-> df, separator |-> sep, na_rep |-> na,
      quote_character |-> <<"\"">>, quote_all_strings |-> FALSE,
      include_line_num |-> iln] :
        name \in BlockNames, df \in DataFrames(maxc, maxr), sep \in Separators,
        na \in NaReps, iln \in BOOLEAN}

CoerceArgs(maxc, maxn) ==
    {[data_blocks |-> data] : data \in Inputs(maxc, maxn)}

(* The keyword arguments a caller gives the constructor, by name. *)
OptionSets ==
    {[quote_all_strings |-> qas] : qas \in BOOLEAN}
    \cup {[quote_all_strings |-> FALSE, include_line_num |-> iln] :
             iln \in BOOLEAN}

LinesArgs(maxc, maxn, maxnow) ==
    {[data_blocks |-> data, options |-> opts, now |-> now] :
        data \in {d \in Inputs(maxc, maxn) : ~Raised(coerce_data_blocks(d))},
        opts \in OptionSets, now \in 0..maxnow}

InitCalls ==
    /\ Idle
    /\ files = [p \in Paths |-> NoFile]
    /\ returned = FALSE
    /\ result = <<>>
    /\ \/ fn = "quote" /\ args \in QuoteArgs
       \/ fn = "simple_block" /\ args \in SimpleBlockArgs(MaxEntries)
       \/ fn = "loop_block" /\ args \in LoopBlockArgs(MaxCols, MaxRows)
       \/ fn = "coerce_data_blocks" /\ args \in CoerceArgs(MaxCols, MaxEntries)
       \/ fn = "lines" /\ args \in LinesArgs(MaxCols, MaxEntries, MaxClock)

Return(r) ==
    /\ ~returned
    /\ returned' = TRUE
    /\ result' = r
    /\ UNCHANGED <<fn, args>>
    /\ UNCHANGED wvars

CallQuote ==
    /\ fn = "quote"
    /\ Return(quote(args.x, args.quote_character, args.quote_all_strings))

CallSimpleBlock ==
    /\ fn = "simple_block"
    /\ Return(simple_block(args.block_name, args.data, args.quote_character,
                           args.quote_all_strings))

CallLoopBlock ==
    /\ fn = "loop_block"
    /\ Return(loop_block(args.block_name, args.df, args.separator,
                         args.na_rep, args.quote_character,
                         args.quote_all_strings, args.include_line_num))

CallCoerce ==
    /\ fn = "coerce_data_blocks"
    /\ Return(coerce_data_blocks(args.data_blocks))

(* StarWriter(data, **options).lines() read to its end; with no filename  *)
(* the constructor touches no file.  Python refuses a keyword that is not  *)
(* a parameter of __init__ with a TypeError before the body runs.          *)
CallLines ==
    /\ fn = "lines"
    /\ Return(IF AcceptsKeywords(args.options)
              THEN lines(NewWriter(coerce_data_blocks(args.data_blocks),
                                   "None", args.options), args.now)
              ELSE TypeError)

NextCalls ==
    \/ CallQuote
    \/ CallSimpleBlock
    \/ CallLoopBlock
    \/ CallCoerce
    \/ CallLines

SpecCalls == InitCalls /\ [][NextCalls]_vars

(* ===================== the writers and the files ======================== *)
WriterInputs ==
    { PyDict(<<>>),
      PyTuple,
      PyNone }
WriterOptionSets ==
    { [quote_all_strings |-> FALSE],
      [quote_all_strings |-> FALSE, include_line_num |-> FALSE] }
Files == {NoFile} \cup {FileOf(t) : t \in OldTexts}

Init ==
    /\ Idle
    /\ files \in [Paths -> Files]
    /\ fn = "none" /\ args = <<>> /\ result = <<>> /\ returned = FALSE

(* w = StarWriter(data, filename, **options) *)
Construct(w) ==
    \E data \in WriterInputs, filename \in Filenames,
       options \in WriterOptionSets :
        LET r == StarWriter_init(data, filename, options, files)
        IN /\ ~writers[w].alive
           /\ err' = r.err
           /\ files' = r.files
           /\ writers' = [writers EXCEPT ![w] = r.self]
           /\ orig' = [orig EXCEPT ![w] =
                          IF r.err = "ok" /\ filename # "None"
                          THEN files[filename] ELSE NoFile]
           /\ alone' = [v \in Writers |->
                          IF v = w THEN r.err = "ok"
                          ELSE alone[v] /\ r.files = files]
           /\ last' = [op |-> "construct", w |-> w, filename |-> filename,
                       shape |-> data.py, changed |-> r.files # files]
           /\ UNCHANGED nwrites

(* w.write() *)
Write(w) ==
    \E now \in 0..MaxClock :
    \E outcome \in Outcomes(writers[w], now) :
        LET r == write(writers[w], now, outcome, files)
        IN /\ writers[w].alive
           /\ nwrites[w] < MaxWrites
           /\ err' = r.err
           /\ files' = r.files
           /\ nwrites' = [nwrites EXCEPT ![w] = @ + 1]
           /\ alone' = [v \in Writers |->
                          IF v = w THEN alone[v]
                          ELSE alone[v] /\ r.files = files]
           /\ last' = [op |-> "write", w |-> w,
                       filename |-> writers[w].filename,
                       shape |-> "none", changed |-> r.files # files]
           /\ UNCHANGED <<writers, orig>>

Next ==
    \/ \E w \in Writers : Construct(w) /\ UNCHANGED callvars
    \/ \E w \in Writers : Write(w) /\ UNCHANGED callvars

Spec == Init /\ [][Next]_vars

(* ============================ properties ================================ *)
StartsWith(s, prefix) ==
    Len(s) >= Len(prefix) /\ SubSeq(s, 1, Len(prefix)) = prefix
CountLines(ls, P(_)) == Cardinality({i \in 1..Len(ls) : P(ls[i])})
IsDataLine(line) == StartsWith(line, <<"d", "a", "t", "a", "_">>)
Returned(f) == fn = f /\ returned

(* C5: lines() is the provenance line, two empty lines, then one section   *)
(* per entry of the coerced Document: no entry is skipped, so there are as *)
(* many 'data_<name>' lines as Document entries, for every accepted input. *)
C5_OneSectionPerEntry ==
    (Returned("lines") /\ result # TypeError) =>
        /\ Len(result) >= 3
        /\ result[1][1] = "#"
        /\ result[2] = <<>> /\ result[3] = <<>>
        /\ CountLines(result, IsDataLine)
              = Len(coerce_data_blocks(args.data_blocks).items)

(* C6: loop_block of a table with c columns and r rows yields 'data_<name>', *)
(* an empty line, 'loop_', c column lines, r row lines and then exactly    *)
(* two empty lines: 3 + c + r + 2 lines.                                   *)
C6_LoopBlockShape ==
    Returned("loop_block") =>
        LET c == Len(args.df.columns)
            r == Len(args.df.rows)
        IN /\ Len(result) = 3 + c + r + 2
           /\ result[1] = <<"d", "a", "t", "a", "_">> \o args.block_name
           /\ result[2] = <<>>
           /\ result[3] = <<"l", "o", "o", "p", "_">>
           /\ \A i \in 1..c : result[3 + i][1] = "_"
           /\ \A i \in 1..r : result[3 + c + i] # <<>>
           /\ result[Len(result) - 1] = <<>>
           /\ result[Len(result)] = <<>>

(* C7: the column-numbering flag is an option of the writer: a writer made *)
(* with it off renders every loop block's column lines as '_<column>', a   *)
(* writer made with it on (or by default) as '_<column> #<i>'.             *)
NumberedAsAsked(ls, doc, numbered) ==
    \A e \in 1..Len(doc.items) :
        doc.items[e].v.py = "DataFrame" =>
            \A i \in 1..Len(doc.items[e].v.columns) :
                \E n \in 1..Len(ls) :
                    ls[n] = <<"_">> \o doc.items[e].v.columns[i]
                            \o (IF numbered
                                THEN <<" ", "#", <<"1", "2", "3", "4">>[i]>>
                                ELSE <<>>)
C7_WriterNumberingOption ==
    Returned("lines") =>
        /\ result # TypeError
        /\ NumberedAsAsked(result, coerce_data_blocks(args.data_blocks),
                           IF "include_line_num" \in DOMAIN args.options
                           THEN args.options.include_line_num ELSE TRUE)

(* C8: coerce_data_blocks gives a single Table the one key ''; a list of n *)
(* blocks the keys '0' .. str(n-1) in order, entry i being element i; a    *)
(* mapping with a Table or mapping among its values is returned as it is;  *)
(* a mapping with none (the empty one too) is wrapped under the key ''.    *)
HasBlockValue(d) ==
    \E i \in 1..Len(d.items) : d.items[i].v.py \in {"DataFrame", "dict"}
C9_QuoteRule ==
    Returned("quote") =>
        LET x == args.x
            q == args.quote_character
            wrapped == [py |-> "str", v |-> q \o x.v \o q]
            must == /\ x.py = "str"
                    /\ \/ args.quote_all_strings
                       \/ \E i \in 1..Len(x.v) : x.v[i] = " "
                       \/ Len(x.v) = 0
        IN /\ must => result = wrapped
           /\ ~must => result = x
           /\ (result.py = "str" /\ result.v = q \o x.v \o q) <=> must
           /\ (x.py = "str" /\ Len(x.v) = 0) => result.v = q \o q
           /\ x.py # "str" => result = x
C9_Witness ==
    /\ Returned("quote")
    /\ args.x = [py |-> "str", v |-> <<>>]
    /\ ~args.quote_all_strings
    /\ result.v = args.quote_character \o args.quote_character

(* ---------------- properties of the writers and the files --------------- *)
DestOf(w) == writers[w].filename
BackupOf(w) == writers[w].filename \o "~"
Rendered(w) ==
    {[exists |-> TRUE, text |-> FileText(lines(writers[w], now))] :
        now \in 0..MaxClock}
FirstWriteDone(w) ==
    /\ last.op = "write" /\ last.w = w /\ err = "ok"
    /\ nwrites[w] = 1
    /\ orig[w].exists /\ alone[w]

(* C1: a destination holding a file with content C (with or without an old *)
(* backup): after the construction of a writer for it and one write(), the *)
(* backup path holds exactly C and the destination the rendered content.   *)
C1_BackupThenWrite ==
    \A w \in Writers :
        FirstWriteDone(w) =>
            /\ files[BackupOf(w)] = orig[w]
            /\ files[DestOf(w)] \in Rendered(w)
C1_Witness ==
    \E w \in Writers :
        /\ FirstWriteDone(w)
        /\ orig[w].text = <<"o", "\n">>
        /\ files["f~"].text = <<"o", "\n">>
        /\ files["f"].text[1] = "#"

(* C2: every write() does the backup itself: when the destination exists   *)
(* as write() is called, the backup path holds afterwards what the         *)
(* destination held just before; and no other operation renames the        *)
(* destination.                                                            *)
C2_EveryWriteBacksUp ==
    [][ /\ (last'.op = "write" /\ err' = "ok" /\ files[last'.filename].exists)
            => files'[last'.filename \o "~"] = files[last'.filename]
        /\ last'.op = "construct" => files' = files ]_vars

(* C3: for one writer on an existing destination, the rename to the backup *)
(* path comes before any new byte: whatever write() does later, and        *)
(* wherever it fails, the backup path holds the original content.          *)
C3_OriginalKept ==
    \A w \in Writers :
        (writers[w].alive /\ orig[w].exists /\ alone[w]) =>
            files[BackupOf(w)] = orig[w]
C3_Witness ==
    \E w \in Writers :
        /\ writers[w].alive /\ orig[w].exists /\ alone[w]
        /\ last.op = "write" /\ last.w = w /\ err = "OSError"
        /\ files[DestOf(w)].exists
        /\ files[DestOf(w)] \notin Rendered(w)
        /\ files[BackupOf(w)] = orig[w]

(* C4: a writer made without a destination: write() fails with the         *)
(* no-destination error, and neither its construction nor the failed       *)
(* write() creates, renames, deletes or changes a file.                    *)
C4_NoDestinationNoIO ==
    (last.op \in {"construct", "write"} /\ last.filename = "None") =>
        /\ ~last.changed
        /\ last.op = "write" => err = "ValueError"
C4_Witness ==
    /\ last.op = "write" /\ last.filename = "None"
    /\ err = "ValueError"
    /\ ~last.changed
    /\ files["f"].exists

(* C10: a constructor given an input that is no Table, mapping or list     *)
(* fails with the invalid-input error before it touches a file: no writer  *)
(* is made, nothing is renamed or deleted.                                 *)
InvalidShape(shape) == shape \notin {"DataFrame", "dict", "list"}
C10_InvalidInputNoIO ==
    (last.op = "construct" /\ InvalidShape(last.shape) /\ err # "TypeError") =>
        /\ err = "ValueError"
        /\ ~last.changed
        /\ ~writers[last.w].alive
C10_Witness ==
    /\ last.op = "construct" /\ last.shape = "tuple" /\ last.filename = "f"
    /\ err = "ValueError"
    /\ files["f"].exists /\ files["f~"].exists
    /\ ~last.changed

====
